---- MODULE Spec2Model ----
(***************************************************************************)
(* Model of src/pdf_to_ics.py: the schedule parser (parse_schedule), the   *)
(* shift builder (create_shift), the time normalizer (parse_time) and the  *)
(* conversion pipeline (convert_pdf_to_ics).                                *)
(*                                                                         *)
(* A text line is represented by what the code's tests and regular         *)
(* expressions observe of it: whether it is blank, contains a header       *)
(* marker, starts with '9387', the groups of the date pattern, whether a   *)
(* rest code sits at tokens 3-4, the groups of the first-shift pattern,    *)
(* the groups of every general-shift match, and whether it contains '-'.   *)
(* A time token "H:MM" is the pair of its digit sequences; a date string   *)
(* "DD/MM/YYYY" is the triple of its numbers.  A datetime is the pair      *)
(* (proleptic Gregorian ordinal, minute of the day): all datetimes of one  *)
(* run carry the same tzinfo object, so Python compares and subtracts      *)
(* their wall-clock values.                                                *)
(***************************************************************************)
EXTENDS Integers, Sequences, FiniteSets, TLC

\* Python's None
None == [none |-> TRUE]

\* Number of raw text lines of one run of the parser
MaxLines == 3
\* Number of lines processed after the initial date line in SpecBuild
MaxBuilds == 1

(***************************************************************************)
(* parse_time                                                              *)
(***************************************************************************)
\* int() of a string of one or two digits
DigitsToInt(ds) == IF Len(ds) = 1 THEN ds[1] ELSE 10 * ds[1] + ds[2]

\* f"{n:02d}" for n in 0..99
Pad2(n) == <<n \div 10, n % 10>>

\* The tokens reaching parse_time come from (\d{1,2}:\d{2}) groups, so they
\* contain the colon and both parts are integers: the result is never None.
parse_time(time_str) ==
    [h |-> Pad2(DigitsToInt(time_str.h)), m |-> Pad2(DigitsToInt(time_str.m))]

(***************************************************************************)
(* datetime.strptime(f"{date_str} {time}", '%d/%m/%Y %H:%M')               *)
(***************************************************************************)
MINYEAR == 1
MAXYEAR == 9999

IsLeap(y) == (y % 4 = 0) /\ ((y % 100 # 0) \/ (y % 400 = 0))

DaysInMonth(m, y) ==
    IF m = 2 THEN (IF IsLeap(y) THEN 29 ELSE 28)
    ELSE IF m \in {4, 6, 9, 11} THEN 30 ELSE 31

RECURSIVE DaysBeforeMonth(_, _)
DaysBeforeMonth(m, y) ==
    IF m = 1 THEN 0 ELSE DaysBeforeMonth(m - 1, y) + DaysInMonth(m - 1, y)

\* date.toordinal()
ToOrdinal(ds) ==
    LET py == ds.y - 1
    IN 365 * py + (py \div 4) - (py \div 100) + (py \div 400)
       + DaysBeforeMonth(ds.m, ds.y) + ds.d

\* date.max.toordinal()
MaxOrdinal == ToOrdinal([d |-> 31, m |-> 12, y |-> MAXYEAR])

DateValid(ds) ==
    /\ ds # None
    /\ ds.y >= MINYEAR /\ ds.y <= MAXYEAR
    /\ ds.m \in 1..12
    /\ ds.d \in 1..DaysInMonth(ds.m, ds.y)

\* %H accepts 0..23 and %M 0..59; anything else raises ValueError
TimeValid(t) ==
    /\ t # None
    /\ DigitsToInt(t.h) <= 23
    /\ DigitsToInt(t.m) <= 59

\* None stands for the ValueError raised by strptime
strptime(date_str, t) ==
    IF DateValid(date_str) /\ TimeValid(t)
    THEN [day |-> ToOrdinal(date_str),
          min |-> 60 * DigitsToInt(t.h) + DigitsToInt(t.m)]
    ELSE None

\* a < b on two datetimes with the same tzinfo
Before(a, b) == a.day < b.day \/ (a.day = b.day /\ a.min < b.min)

\* (b - a) in minutes
MinutesBetween(a, b) == (b.day - a.day) * 1440 + (b.min - a.min)

\* f"{duration.total_seconds() / 3600:.2f}", as hundredths of an hour.
\* minutes*100/60 is never half-way between two integers.
DurationStr(minutes) == (10 * minutes + 3) \div 6

(***************************************************************************)
(* create_shift                                                            *)
(***************************************************************************)
\* faulty variant: the end is moved also when it equals the start
RolloverNeeded_le(start_dt, end_dt) == ~Before(start_dt, end_dt)

\* faulty variant: the end is never moved
RolloverNeeded_never(start_dt, end_dt) == FALSE

\* if end_dt < start_dt
RolloverNeeded(start_dt, end_dt) == Before(end_dt, start_dt)

\* faulty variant: the record is dated by its end
ShiftDate_end(start_dt, end_dt) == end_dt.day

\* 'date': start_dt.date()
ShiftDate(start_dt, end_dt) == start_dt.day

\* None stands for the exception caught at line 168
create_shift(date_str, shift_info) ==
    LET start_dt == strptime(date_str, shift_info.start_time)
        end_dt0  == strptime(date_str, shift_info.end_time)
    IN IF start_dt = None \/ end_dt0 = None THEN None
       ELSE IF RolloverNeeded(start_dt, end_dt0) /\ end_dt0.day = MaxOrdinal
            THEN None    \* OverflowError of end_dt += timedelta(days=1)
       ELSE LET end_dt == IF RolloverNeeded(start_dt, end_dt0)
                          THEN [end_dt0 EXCEPT !.day = @ + 1]
                          ELSE end_dt0
            IN [date     |-> ShiftDate(start_dt, end_dt),
                start    |-> start_dt,
                end      |-> end_dt,
                ligne    |-> shift_info.ligne,
                ldebpce  |-> shift_info.ldebpce,
                lfinpce  |-> shift_info.lfinpce,
                duration |-> DurationStr(MinutesBetween(start_dt, end_dt)),
                details  |-> shift_info.full_line]

(***************************************************************************)
(* Lines and the extractors                                                *)
(***************************************************************************)
Tok(h, m) == [h |-> h, m |-> m]

\* the groups (1, 4, 5, 6, 7) of one match of the pattern of line 59
G(ligne, ldebpce, start, end, lfinpce) ==
    [ligne |-> ligne, ldebpce |-> ldebpce, start |-> start, end |-> end,
     lfinpce |-> lfinpce]

\* the groups (3, 1) of the match of the pattern of line 35
F(ldebpce, start) == [ldebpce |-> ldebpce, start |-> start]

DateStr(d, m, y) == [d |-> d, m |-> m, y |-> y]

TextLine(header, prefix, date, rest, first, gen, dash) ==
    [blank |-> FALSE, header |-> header, prefix |-> prefix, date |-> date,
     rest |-> rest, first |-> first, gen |-> gen, dash |-> dash]

\* a raw line that is empty after strip()
BlankLine ==
    [blank |-> TRUE, header |-> FALSE, prefix |-> FALSE, date |-> None,
     rest |-> FALSE, first |-> None, gen |-> <<>>, dash |-> FALSE]

T0510 == Tok(<<5>>, <<1, 0>>)
T0520 == Tok(<<5>>, <<2, 0>>)
T0640 == Tok(<<6>>, <<4, 0>>)
T0700 == Tok(<<0, 7>>, <<0, 0>>)
T2330 == Tok(<<2, 3>>, <<3, 0>>)
T0015 == Tok(<<0>>, <<1, 5>>)
T2500 == Tok(<<2, 5>>, <<0, 0>>)

D1   == DateStr(2, 9, 2024)
D2   == DateStr(3, 9, 2024)
Dbad == DateStr(31, 2, 2024)

gA == G("12", "ABC", T0520, T0640, "DEF")   \* 12 3 - 4 ABC 5:20 6:40 DEF
gB == G("7", "GHI", T2330, T0015, "JKL")    \* 7 1 - 2 GHI 23:30 0:15 JKL
gX == G("9", "MNO", T0700, T2500, "PQR")    \* 9 5 - 6 MNO 07:00 25:00 PQR
fA == F("ABC", T0510)                       \* BO 5:10 5:00 X 12 3 - 4 ABC
fB == F("GHI", T2330)                       \* DP 23:30 23:00 X 7 1 - 2 GHI

\* The lines of the parser runs
Lines ==
    { BlankLine,
      \* 9387 mar. 03/09/2024 J BO 5:10 ... ABC 5:20 6:40 DEF Page: 1
      TextLine(TRUE, TRUE, D2, FALSE, fA, <<gA>>, TRUE),
      \* HASTUS 7 1 - 2 GHI 23:30 0:15 JKL
      TextLine(TRUE, FALSE, None, FALSE, None, <<gB>>, TRUE),
      \* 9387 lun 02/09/2024 J BO 5:10 ... ABC 5:20 6:40 DEF  (no dot)
      TextLine(FALSE, TRUE, None, FALSE, fA, <<gA>>, TRUE),
      \* 9387 lun. 02/09/2024 R
      TextLine(FALSE, TRUE, D1, TRUE, None, <<>>, FALSE),
      \* 9387 mar. 03/09/2024 R BO 5:10 ... ABC 5:20 6:40 DEF
      TextLine(FALSE, TRUE, D2, TRUE, fA, <<gA>>, TRUE),
      \* 9387 lun. 02/09/2024 J
      TextLine(FALSE, TRUE, D1, FALSE, None, <<>>, FALSE),
      \* 9387 lun. 02/09/2024 J BO 5:10 5:00 X 12 3 - 4 ABC
      TextLine(FALSE, TRUE, D1, FALSE, fA, <<>>, TRUE),
      TextLine(FALSE, TRUE, D1, FALSE, fA, <<gA>>, TRUE),
      TextLine(FALSE, TRUE, D1, FALSE, fA, <<gX, gB>>, TRUE),
      TextLine(FALSE, TRUE, D1, FALSE, None, <<gA, gB>>, TRUE),
      \* 9387 mar. 03/09/2024 J
      TextLine(FALSE, TRUE, D2, FALSE, None, <<>>, FALSE),
      TextLine(FALSE, TRUE, D2, FALSE, fB, <<gB>>, TRUE),
      \* 9387 sam. 31/02/2024 J BO 5:10 ... ABC 5:20 6:40 DEF
      TextLine(FALSE, TRUE, Dbad, FALSE, fA, <<gA>>, TRUE),
      \* continuation lines
      TextLine(FALSE, FALSE, None, FALSE, None, <<>>, TRUE),
      TextLine(FALSE, FALSE, None, FALSE, None, <<gA>>, TRUE),
      TextLine(FALSE, FALSE, None, FALSE, None, <<gX, gA>>, TRUE),
      TextLine(FALSE, FALSE, None, FALSE, None, <<gB, gB>>, TRUE),
      \* a line without '-'
      TextLine(FALSE, FALSE, None, FALSE, None, <<>>, FALSE) }

\* result of extract_first_shift_time(line)
extract_first_shift_time(line) ==
    IF line.first = None THEN None
    ELSE [ldebpce |-> line.first.ldebpce,
          start_time |-> parse_time(line.first.start)]

\* result of extract_shifts_info(line): one dict per match, in match order
extract_shifts_info(line) ==
    [k \in 1..Len(line.gen) |->
        [ligne      |-> line.gen[k].ligne,
         ldebpce    |-> line.gen[k].ldebpce,
         lfinpce    |-> line.gen[k].lfinpce,
         start_time |-> parse_time(line.gen[k].start),
         end_time   |-> parse_time(line.gen[k].end),
         full_line  |-> line]]

\* faulty variant: a header line that starts with '9387' is taken as a date line
IsHeader_afterPrefix(line) == line.header /\ ~line.prefix

\* any(x in line for x in ['tl Jour', 'HASTUS', 'Division:', 'Page:'])
IsHeader(line) == line.header

(***************************************************************************)
(* parse_schedule: the loops over the matches of one line                  *)
(***************************************************************************)
\* list.index(x) + 1: the first position holding a value equal to x
ListIndex(list, x) == CHOOSE j \in 1..Len(list) :
                          list[j] = x /\ \A i \in 1..(j - 1) : list[i] # x

\* second_shifts.index(shift_info) == 0 and first_shift_time
CarryApplies(second_shifts, i, first_shift_time) ==
    ListIndex(second_shifts, second_shifts[i]) = 1 /\ first_shift_time # None

\* faulty variant: the fragment stays pending after its use
ClearFragment_keep(first_shift_time) == first_shift_time

\* first_shift_time = None
ClearFragment(first_shift_time) == None

\* faulty variant: the first failing build ends the loop (the rest is not built)
RECURSIVE ProcessShifts_abort(_, _, _, _)
ProcessShifts_abort(st, second_shifts, n, i) ==
    IF i > Len(second_shifts) THEN st
    ELSE LET carry == CarryApplies(second_shifts, i, st.first_shift_time)
             shift_info ==
                 IF carry
                 THEN [second_shifts[i] EXCEPT
                          !.ldebpce = st.first_shift_time.ldebpce,
                          !.start_time = st.first_shift_time.start_time]
                 ELSE second_shifts[i]
             shift == create_shift(st.current_date, shift_info)
             fst == IF carry THEN ClearFragment(st.first_shift_time)
                    ELSE st.first_shift_time
             st1 == [st EXCEPT
                        !.first_shift_time = fst,
                        !.fragSrc = IF fst = None THEN 0 ELSE @,
                        !.shifts = IF shift # None THEN Append(@, shift) ELSE @,
                        !.trace = Append(@,
                            [line |-> n, k |-> i,
                             frag |-> IF carry THEN st.fragSrc ELSE 0,
                             rec  |-> IF shift # None
                                      THEN Len(st.shifts) + 1 ELSE 0])]
         IN IF shift = None THEN st1
            ELSE ProcessShifts_abort(st1,
                     [second_shifts EXCEPT ![i] = shift_info], n, i + 1)

\* for shift_info in second_shifts: ... (lines 115-123 and 128-135).
\* st is the parser's state, n the number of the line, i the position in
\* second_shifts.  trace and fragSrc are history: they record, for every
\* match processed, its line and position, the line of the fragment that
\* overrode it (0: none) and the position of its record in shifts (0: the
\* build failed).
RECURSIVE ProcessShifts(_, _, _, _)
ProcessShifts(st, second_shifts, n, i) ==
    IF i > Len(second_shifts) THEN st
    ELSE LET carry == CarryApplies(second_shifts, i, st.first_shift_time)
             shift_info ==
                 IF carry
                 THEN [second_shifts[i] EXCEPT
                          !.ldebpce = st.first_shift_time.ldebpce,
                          !.start_time = st.first_shift_time.start_time]
                 ELSE second_shifts[i]
             shift == create_shift(st.current_date, shift_info)
             fst == IF carry THEN ClearFragment(st.first_shift_time)
                    ELSE st.first_shift_time
             st1 == [st EXCEPT
                        !.first_shift_time = fst,
                        !.fragSrc = IF fst = None THEN 0 ELSE @,
                        !.shifts = IF shift # None THEN Append(@, shift) ELSE @,
                        !.trace = Append(@,
                            [line |-> n, k |-> i,
                             frag |-> IF carry THEN st.fragSrc ELSE 0,
                             rec  |-> IF shift # None
                                      THEN Len(st.shifts) + 1 ELSE 0])]
         IN ProcessShifts(st1, [second_shifts EXCEPT ![i] = shift_info],
                          n, i + 1)

(***************************************************************************)
(* parse_schedule: one iteration of the loop over the lines                *)
(***************************************************************************)
\* the branch of a date line whose rest codes match (lines 105-107)
OnRestDay(st) == st

\* the branch of a date line without rest code (lines 110-123)
OnWorkDay(st, line, n) ==
    LET f == extract_first_shift_time(line)
        st1 == [st EXCEPT !.first_shift_time = f,
                          !.fragSrc = IF f = None THEN 0 ELSE n]
    IN ProcessShifts(st1, extract_shifts_info(line), n, 1)

\* the branch of lines 126-135
OnContinuation(st, line, n) ==
    ProcessShifts(st, extract_shifts_info(line), n, 1)

\* faulty variant: a date line whose date does not match is read as a continuation
OnDateFail_fallthrough(st, line, n) ==
    IF st.current_date # None /\ line.dash
    THEN OnContinuation(st, line, n) ELSE st

\* if date_match: is false: nothing is executed (line 100)
OnDateFail(st, line, n) == st

\* The body of the loop of line 92 for the raw line number n; a blank raw
\* line is removed by the filter of line 89.
LineStep(st, line, n) ==
    IF line.blank THEN st
    ELSE IF IsHeader(line) THEN st
    ELSE IF line.prefix
         THEN IF line.date # None
              THEN LET st1 == [st EXCEPT !.current_date = line.date]
                   IN IF line.rest THEN OnRestDay(st1)
                      ELSE OnWorkDay(st1, line, n)
              ELSE OnDateFail(st, line, n)
    ELSE IF st.current_date # None /\ line.dash
         THEN OnContinuation(st, line, n)
    ELSE st

\* the locals of parse_schedule before the loop (lines 85-90)
ParserInit ==
    [current_date |-> None, first_shift_time |-> None, shifts |-> <<>>,
     fragSrc |-> 0, trace |-> <<>>]

(***************************************************************************)
(* create_calendar                                                         *)
(***************************************************************************)
\* the insertion of one record behind the records that do not start later
RECURSIVE InsertByStart(_, _)
InsertByStart(sorted, x) ==
    IF sorted = <<>> THEN <<x>>
    ELSE IF Before(x.start, sorted[Len(sorted)].start)
         THEN Append(InsertByStart(SubSeq(sorted, 1, Len(sorted) - 1), x),
                     sorted[Len(sorted)])
         ELSE Append(sorted, x)

\* shifts.sort(key=lambda x: x['start']): a stable sort
RECURSIVE SortByStart(_)
SortByStart(list) ==
    IF list = <<>> THEN <<>>
    ELSE InsertByStart(SortByStart(SubSeq(list, 1, Len(list) - 1)),
                       list[Len(list)])

\* the Event of one shift (lines 181-193)
EventOf(shift) ==
    [name        |-> <<"Ligne", shift.ligne, shift.ldebpce, shift.lfinpce>>,
     begin       |-> shift.start,
     end         |-> shift.end,
     location    |-> <<shift.ldebpce, shift.lfinpce>>,
     description |-> <<shift.duration, shift.ligne, shift.ldebpce,
                       shift.lfinpce, shift.details>>]

\* cal.events after the loop of line 180, for the sorted list
CalendarOf(sorted) == {EventOf(sorted[i]) : i \in 1..Len(sorted)}

(***************************************************************************)
(* convert_pdf_to_ics                                                      *)
(***************************************************************************)
VARIABLES
    pc,                 \* "start", "parse" (inside parse_schedule), "done"
    text,               \* what read_pdf returned
    consumed,           \* the raw lines of text taken so far, in order
    current_date,       \* parse_schedule's current_date
    first_shift_time,   \* parse_schedule's first_shift_time
    shifts,             \* parse_schedule's shifts, then the caller's
    fragSrc,            \* history: line of the pending fragment, 0 if none
    trace,              \* history: the matches processed
    result,             \* the value returned by convert_pdf_to_ics
    writes,             \* number of writes of the output file
    file                \* the events written

vars == <<pc, text, consumed, current_date, first_shift_time, shifts,
          fragSrc, trace, result, writes, file>>

ParserState ==
    [current_date |-> current_date, first_shift_time |-> first_shift_time,
     shifts |-> shifts, fragSrc |-> fragSrc, trace |-> trace]

SetParserState(st) ==
    /\ current_date' = st.current_date
    /\ first_shift_time' = st.first_shift_time
    /\ shifts' = st.shifts
    /\ fragSrc' = st.fragSrc
    /\ trace' = st.trace

\* if not text: read_pdf returned None (an exception) or "" (no page)
NoText(t) == t \in {"None", ""}

\* faulty variant: the calendar is written also for an empty list
NoShifts_never(list) == FALSE

\* if not shifts
NoShifts(list) == list = <<>>

Init ==
    /\ pc = "start"
    /\ text = "unread"
    /\ consumed = <<>>
    /\ current_date = ParserInit.current_date
    /\ first_shift_time = ParserInit.first_shift_time
    /\ shifts = ParserInit.shifts
    /\ fragSrc = ParserInit.fragSrc
    /\ trace = ParserInit.trace
    /\ result = 0
    /\ writes = 0
    /\ file = {}

\* read_pdf returns None or "", and convert_pdf_to_ics returns 0 (201-204)
ReadPdfNoText ==
    /\ pc = "start"
    /\ \E t \in {"None", ""} :
          /\ text' = t
          /\ IF NoText(t)
             THEN pc' = "done" /\ result' = 0
             ELSE pc' = "parse" /\ result' = result
    /\ UNCHANGED <<consumed, current_date, first_shift_time, shifts, fragSrc,
                   trace, writes, file>>

\* read_pdf returns a text of at least one character (201-207)
ReadPdfText ==
    /\ pc = "start"
    /\ text' = "text"
    /\ IF NoText("text")
       THEN pc' = "done" /\ result' = 0
       ELSE pc' = "parse" /\ result' = result
    /\ UNCHANGED <<consumed, current_date, first_shift_time, shifts, fragSrc,
                   trace, writes, file>>

\* the next raw line of the text goes through the filter of line 89 and
\* the body of the loop of line 92
ProcessLine ==
    /\ pc = "parse"
    /\ text = "text"
    /\ Len(consumed) < MaxLines
    /\ \E line \in Lines :
          /\ consumed' = Append(consumed, line)
          /\ SetParserState(LineStep(ParserState, line, Len(consumed) + 1))
    /\ UNCHANGED <<pc, text, result, writes, file>>

\* The text ends: parse_schedule returns and convert_pdf_to_ics finishes
\* (lines 137 and 209-220).  A text that is "" has one (blank) raw line.
Finish ==
    /\ pc = "parse"
    /\ text = "" \/ Len(consumed) >= 1
    /\ pc' = "done"
    /\ IF NoShifts(shifts)
       THEN /\ result' = 0
            /\ UNCHANGED <<shifts, writes, file>>
       ELSE /\ shifts' = SortByStart(shifts)
            /\ file' = CalendarOf(shifts')
            /\ writes' = writes + 1
            /\ result' = Len(shifts')
    /\ UNCHANGED <<text, consumed, current_date, first_shift_time, fragSrc,
                   trace>>

Next == ReadPdfNoText \/ ReadPdfText \/ ProcessLine \/ Finish

Spec == Init /\ [][Next]_vars

(***************************************************************************)
(* create_shift over a range of dates and times: the parser after one      *)
(* date line, followed by lines of one general match each                  *)
(***************************************************************************)
BuildTimes ==
    { Tok(<<5>>, <<1, 0>>), Tok(<<0, 5>>, <<1, 0>>), Tok(<<2, 3>>, <<3, 0>>),
      Tok(<<0>>, <<1, 5>>), Tok(<<0>>, <<0, 0>>), Tok(<<2, 3>>, <<5, 9>>),
      Tok(<<2, 5>>, <<0, 0>>), Tok(<<7>>, <<6, 0>>) }

BuildDates ==
    { DateStr(2, 9, 2024), DateStr(29, 2, 2024), DateStr(31, 12, 9999),
      DateStr(29, 2, 2023), DateStr(1, 1, 0) }

BuildDateLines ==
    { TextLine(FALSE, TRUE, d, FALSE, f, <<>>, f # None) :
        d \in BuildDates,
        f \in {None} \cup {F("ABC", t) : t \in BuildTimes} }

BuildLines ==
    { TextLine(FALSE, FALSE, None, FALSE, None,
               <<G("12", "GHI", s, e, "DEF")>>, TRUE) :
        s \in BuildTimes, e \in BuildTimes }

InitBuild ==
    /\ pc = "parse"
    /\ text = "text"
    /\ result = 0
    /\ writes = 0
    /\ file = {}
    /\ \E line \in BuildDateLines :
          /\ consumed = <<line>>
          /\ LET st == LineStep(ParserInit, line, 1)
             IN /\ current_date = st.current_date
                /\ first_shift_time = st.first_shift_time
                /\ shifts = st.shifts
                /\ fragSrc = st.fragSrc
                /\ trace = st.trace

BuildLine ==
    /\ pc = "parse"
    /\ Len(consumed) < 1 + MaxBuilds
    /\ \E line \in BuildLines :
          /\ consumed' = Append(consumed, line)
          /\ SetParserState(LineStep(ParserState, line, Len(consumed) + 1))
    /\ UNCHANGED <<pc, text, result, writes, file>>

NextBuild == BuildLine

SpecBuild == InitBuild /\ [][NextBuild]_vars

(***************************************************************************)
(* Vocabulary of the properties, read off the lines taken so far           *)
(***************************************************************************)
\* line i reaches the tests of lines 98 and 126
Effective(i) == ~consumed[i].blank /\ ~consumed[i].header

\* line i is a DateRecord line whose date is extracted
IsDateLine(i) ==
    Effective(i) /\ consumed[i].prefix /\ consumed[i].date # None

\* line i is a DateRecord line whose date pattern does not match
IsDateFailLine(i) ==
    Effective(i) /\ consumed[i].prefix /\ consumed[i].date = None

IsRestLine(i) == IsDateLine(i) /\ consumed[i].rest

IsWorkLine(i) == IsDateLine(i) /\ ~consumed[i].rest

\* the most recent line with an extracted date at or before line i (0: none)
RECURSIVE LastDateLine(_)
LastDateLine(i) ==
    IF i = 0 THEN 0
    ELSE IF IsDateLine(i) THEN i ELSE LastDateLine(i - 1)

DateAt(i) ==
    IF LastDateLine(i) = 0 THEN None ELSE consumed[LastDateLine(i)].date

\* line i is one whose general matches are to be built
IsShiftLine(i) ==
    \/ IsWorkLine(i)
    \/ /\ Effective(i) /\ ~consumed[i].prefix
       /\ LastDateLine(i) # 0 /\ consumed[i].dash

\* the general matches to be built on lines 1..i, in line and match order
RECURSIVE LiveMatches(_)
LiveMatches(i) ==
    IF i = 0 THEN <<>>
    ELSE LiveMatches(i - 1) \o
         (IF IsShiftLine(i)
          THEN [k \in 1..Len(consumed[i].gen) |-> [line |-> i, k |-> k]]
          ELSE <<>>)

TokMinutes(tok) == 60 * DigitsToInt(tok.h) + DigitsToInt(tok.m)

TokValid(tok) == DigitsToInt(tok.h) <= 23 /\ DigitsToInt(tok.m) <= 59

\* the match of the text that trace entry e was made from
MatchOf(e) == consumed[e.line].gen[e.k]

\* the start token in effect for trace entry e
StartTokOf(e) ==
    IF e.frag # 0 THEN consumed[e.frag].first.start ELSE MatchOf(e).start

\* the entry can be built: both instants exist, and so does the day after
\* when the end is to be moved
Buildable(e) ==
    /\ DateValid(DateAt(e.line))
    /\ TokValid(StartTokOf(e))
    /\ TokValid(MatchOf(e).end)
    /\ ~(/\ TokMinutes(MatchOf(e).end) < TokMinutes(StartTokOf(e))
         /\ DateAt(e.line) = DateStr(31, 12, MAXYEAR))

TraceIdx == 1..Len(trace)

Built == {a \in TraceIdx : trace[a].rec # 0}

\* the number of records built by the entries before a
RECURSIVE BuiltBefore(_)
BuiltBefore(a) ==
    IF a <= 1 THEN 0
    ELSE BuiltBefore(a - 1) + (IF trace[a - 1].rec # 0 THEN 1 ELSE 0)

InParse == pc = "parse"

(***************************************************************************)
(* Properties                                                              *)
(***************************************************************************)
\* C1: a date line with a rest code skips the whole day: no record comes
\* from a line whose current date was set by a rest/holiday line.
C1_RestDaySkipped ==
    InParse =>
        \A a \in Built : ~IsRestLine(LastDateLine(trace[a].line))

\* C2 as stated: every record built ends strictly after it starts.
C2_EndAfterStart ==
    \A i \in 1..Len(shifts) : Before(shifts[i].start, shifts[i].end)

\* C2 amended: no record ends before it starts, and a record ends exactly
\* when it starts if and only if its start and end times of day are equal.
C2_EndNotBeforeStart ==
    \A i \in 1..Len(shifts) :
        /\ ~Before(shifts[i].end, shifts[i].start)
        /\ (shifts[i].end = shifts[i].start)
              <=> (shifts[i].start.min = shifts[i].end.min)

\* a record whose start was carried over from the fragment, in place of a
\* different start of its match, and whose end time of day equals its start
C2_Witness ==
    /\ InParse
    /\ \E a \in Built :
          /\ trace[a].frag # 0
          /\ shifts[trace[a].rec].end = shifts[trace[a].rec].start
          /\ TokMinutes(StartTokOf(trace[a])) # TokMinutes(MatchOf(trace[a]).start)

\* C3 as stated: when a date line yields a fragment, the first record of
\* that date's lines carries the fragment's origin and start, and no other
\* record of the date does.
C3_FirstRecordCarries ==
    InParse =>
        \A i \in 1..Len(consumed) :
            (IsWorkLine(i) /\ consumed[i].first # None) =>
                LET recs == {a \in Built : LastDateLine(trace[a].line) = i}
                IN \A a \in recs :
                       (trace[a].frag = i)
                          <=> (\A b \in recs : a <= b)

\* the fields of the record of entry a come from the fragment (origin and
\* start) and the match (route, destination, end), or all from the match
RecordFields(a) ==
    LET e == trace[a]
        r == shifts[e.rec]
        g == MatchOf(e)
    IN /\ r.ligne = g.ligne
       /\ r.lfinpce = g.lfinpce
       /\ r.end.min = TokMinutes(g.end)
       /\ r.start.min = TokMinutes(StartTokOf(e))
       /\ r.ldebpce = IF e.frag # 0 THEN consumed[e.frag].first.ldebpce
                      ELSE g.ldebpce

\* C3 amended: the fragment of a date line overrides the origin and start
\* of the first general match processed after it (on the same or a later
\* line), which keeps its route, destination and end; that use clears it
\* whether or not the match builds, so no other match uses it.
C3_CarryOverOnce ==
    InParse =>
        /\ \A a \in TraceIdx :
              trace[a].frag # 0 =>
                 /\ IsWorkLine(trace[a].frag)
                 /\ consumed[trace[a].frag].first # None
                 /\ trace[a].line >= trace[a].frag
                 /\ \A b \in TraceIdx :
                       (b # a /\ trace[b].line >= trace[a].frag) => b > a
                 /\ \A b \in TraceIdx :
                       b # a => trace[b].frag # trace[a].frag
        /\ \A i \in 1..Len(consumed) :
              (IsWorkLine(i) /\ consumed[i].first # None) =>
                 \A a \in TraceIdx :
                    (/\ LastDateLine(trace[a].line) = i
                     /\ \A b \in TraceIdx : b < a => trace[b].line < i)
                    => trace[a].frag = i
        /\ \A a \in Built : RecordFields(a)

\* a date with a fragment and two records: the first one carries the
\* fragment, the second one does not
C3_Witness ==
    /\ InParse
    /\ \E a, b \in Built :
          /\ a < b
          /\ trace[a].frag # 0
          /\ LastDateLine(trace[b].line) = trace[a].frag
          /\ shifts[trace[a].rec].ldebpce # MatchOf(trace[a]).ldebpce
          /\ shifts[trace[a].rec].start.min # TokMinutes(MatchOf(trace[a]).start)

\* C4: the pending fragment stays within its date: it is only applied to a
\* match of the date line that produced it, and it is not pending any more
\* once a later line with an extracted date has been processed.
C4_SlotConfined ==
    InParse =>
        /\ \A a \in TraceIdx :
              trace[a].frag # 0 => LastDateLine(trace[a].line) = trace[a].frag
        /\ fragSrc # 0 => LastDateLine(Len(consumed)) = fragSrc

C6_SkipAndContinue ==
    InParse =>
        /\ Len(trace) = Len(LiveMatches(Len(consumed)))
        /\ \A a \in TraceIdx :
              /\ trace[a].line = LiveMatches(Len(consumed))[a].line
              /\ trace[a].k = LiveMatches(Len(consumed))[a].k
              /\ trace[a].rec # 0 <=> Buildable(trace[a])
              /\ trace[a].rec # 0 => trace[a].rec = BuiltBefore(a) + 1
        /\ Len(shifts) = Cardinality(Built)
        /\ current_date = DateAt(Len(consumed))

\* a build failed for a time out of range, and a match after it on the
\* same line and one on a later line were built
C6_Witness ==
    /\ InParse
    /\ \E a, b, c \in TraceIdx :
          /\ a < b /\ b < c
          /\ trace[a].rec = 0 /\ DateValid(DateAt(trace[a].line))
          /\ trace[b].line = trace[a].line /\ trace[b].rec # 0
          /\ trace[c].line > trace[a].line /\ trace[c].rec # 0

\* the line just taken is number Len(consumed) + 1 of the text
LineTaken == pc = "parse" /\ pc' = "parse" /\ Len(consumed') = Len(consumed) + 1

\* C7: a line with the date prefix whose date pattern does not match
\* changes neither the current date nor the pending fragment nor the
\* output.
C7_DateFailNoOp ==
    [][(LineTaken /\ LET l == consumed'[Len(consumed')]
                     IN ~l.blank /\ ~l.header /\ l.prefix /\ l.date = None)
       => UNCHANGED <<current_date, first_shift_time, shifts>>]_vars

\* such a line, with shift matches and a '-', was taken while a date was
\* current and a fragment pending
C7_Witness ==
    /\ InParse
    /\ Len(consumed) >= 2
    /\ IsDateFailLine(Len(consumed))
    /\ consumed[Len(consumed)].gen # <<>>
    /\ consumed[Len(consumed)].dash
    /\ current_date # None
    /\ first_shift_time # None

\* C8: a line with a header/footer marker changes neither the current date
\* nor the pending fragment nor the output, whatever else it contains.
C8_HeaderNoOp ==
    [][(LineTaken /\ LET l == consumed'[Len(consumed')]
                     IN ~l.blank /\ l.header)
       => UNCHANGED <<current_date, first_shift_time, shifts>>]_vars

\* a header line that starts with the date prefix, has a date and shift
\* matches, was taken while another date was current and a fragment pending
C8_Witness ==
    /\ InParse
    /\ Len(consumed) >= 2
    /\ LET l == consumed[Len(consumed)]
       IN /\ l.header /\ l.prefix /\ l.date # None /\ l.gen # <<>>
          /\ current_date # None /\ current_date # l.date
    /\ first_shift_time # None

\* C9: the file is written if and only if the count returned is positive.
\* Without text, or without shifts, 0 is returned and nothing is written;
\* otherwise the calendar is written once and the count is the number of
\* records parse_schedule built.
C9_WriteIffCount ==
    /\ writes <= 1
    /\ pc # "done" => (writes = 0 /\ file = {})
    /\ pc = "done" =>
          /\ (writes = 1) <=> (result > 0)
          /\ (text \in {"None", ""} \/ Cardinality(Built) = 0)
                => (result = 0 /\ writes = 0 /\ file = {})
          /\ (text = "text" /\ Cardinality(Built) > 0)
                => (writes = 1 /\ result = Cardinality(Built)
                    /\ result = Len(shifts) /\ file # {})

\* the conversion returned 2 after writing once
C9_Witness == pc = "done" /\ writes = 1 /\ result = 2

\* C10: every record carries the date of the most recent line with an
\* extracted date at or before its line; the records are in the order of
\* the lines and matches; there is no record before the first such line.
C10_DateAttribution ==
    InParse =>
        /\ \A a \in Built :
              /\ DateAt(trace[a].line) # None
              /\ shifts[trace[a].rec].date = ToOrdinal(DateAt(trace[a].line))
              /\ shifts[trace[a].rec].details = consumed[trace[a].line]
        /\ \A a, b \in Built :
              a < b =>
                 /\ trace[a].rec < trace[b].rec
                 /\ \/ trace[a].line < trace[b].line
                    \/ trace[a].line = trace[b].line /\ trace[a].k < trace[b].k
        /\ \A i \in 1..Len(shifts) : \E a \in Built : trace[a].rec = i
        /\ LastDateLine(Len(consumed)) = 0 => shifts = <<>>

\* records of two dates, the second one from a continuation line
C10_Witness ==
    /\ InParse
    /\ \E a, b \in Built :
          /\ a < b
          /\ shifts[trace[a].rec].date # shifts[trace[b].rec].date
          /\ ~consumed[trace[b].line].prefix

====
